---- MODULE Spec2Model ----
(***************************************************************************)
(* Model of src/inspector_agent.cc: the Agent facade, the                  *)
(* NodeInspectorClient (Session Client) with its nested pause loop, and    *)
(* the three wake paths armed by Agent::RequestIoThreadStart.              *)
(*                                                                         *)
(* Two threads: "exec" (the execution thread, which runs every Agent and   *)
(* Session Client method, the uv async callback, the V8 interrupt and the  *)
(* foreground tasks) and "io" (any other thread, which only runs           *)
(* RequestIoThreadStart, one statement per step).                          *)
(*                                                                         *)
(* assert() is modelled as the abort of an assert-enabled build            *)
(* (fate = "assert").  Undefined behaviour (a call through a null or       *)
(* destroyed Session Client, a call through a null channel) is a           *)
(* nondeterministic choice among UBOutcomes.                               *)
(***************************************************************************)
EXTENDS Integers, Sequences, FiniteSets, TLC

\* Bounds of the model (not program constants).
MaxPending == 1   \* queued StartIoTasks / requested interrupts
MaxDepth   == 2   \* pause-loop activations on the execution thread's stack
MaxBinds   == 2   \* saturation point of the bind counter

VARIABLES
  fate,          \* "running", or how the process ended: "assert", "segv", "ub"
  parentEnv,     \* Agent::parent_env_ / platform_ / async handle are set (Start ran)
  client,        \* Agent::client_ != nullptr
  io,            \* Agent::io_: "none" (nullptr), "started" (Start() returned true),
                 \*             "failed" (object kept although Start() returned false)
  enabled,       \* Agent::enabled_
  channel,       \* NodeInspectorClient::channel_ != nullptr
  terminated,    \* NodeInspectorClient::terminated_
  running,       \* NodeInspectorClient::running_nested_loop_
  stack,         \* activations of runMessageLoopOnPause that are inside the loop
  mode,          \* top level of the execution thread: "loop" (blocked on the
                 \* event source) or "script" (running script)
  asyncPending,  \* start_io_thread_async has been signalled and not yet delivered
  tasks,         \* StartIoTasks in the platform's foreground queue
  interrupts,    \* StartIoInterrupts requested and not yet delivered
  reqPc,         \* position of the other thread inside RequestIoThreadStart
  actor,         \* thread that took the last step
  lastOp,        \* operation performed by the last step
  ret,           \* value returned by the last StartIoThread: "none", "true", "false"
  didBind,       \* the last StartIoThread called InspectorIo::Start()
  waitRet,       \* value returned by the last waitForFrontendMessage()
  startIoOn,     \* thread on which StartIoThread was last invoked
  attached,      \* history: a connect() returned and no disconnect() since
  bindsSinceStop,     \* history: InspectorIo::Start() calls since the last Stop()
  okSinceStop,        \* history: a bind succeeded since the last Stop()
  bindFailed,         \* history: a bind has failed
  boundBy,            \* history: the operation that performed the last bind
  deliveredSinceStop, \* history: a wake delivery ran since the last Stop()
  owed,          \* history: RequestIoThreadStart began, no delivery has run since
  blocked,       \* the execution thread is inside InspectorIo::WaitForDisconnect()
  calls          \* history: the calls made by the WaitForDisconnect or
                 \* FatalException of the last step, in order

agentVars  == <<parentEnv, client, io, enabled>>
clientVars == <<channel, terminated, running>>
wakeVars   == <<asyncPending, tasks, interrupts, reqPc>>
ioResult   == <<ret, didBind, startIoOn, bindsSinceStop, okSinceStop, bindFailed,
               boundBy>>

vars == <<fate, parentEnv, client, io, enabled, channel, terminated, running,
          stack, mode, asyncPending, tasks, interrupts, reqPc, actor, lastOp,
          ret, didBind, waitRet, startIoOn, attached, bindsSinceStop,
          okSinceStop, bindFailed, boundBy, deliveredSinceStop, owed,
          blocked, calls>>

UBOutcomes == {"segv", "ub"}

Min(a, b) == IF a < b THEN a ELSE b

Top == stack[Len(stack)]

Pop == SubSeq(stack, 1, Len(stack) - 1)

SetTop(r) == [stack EXCEPT ![Len(stack)] = r]

\* Agent::Agent(): no environment, no Session Client, no IO controller.
Init ==
  /\ fate = "running"
  /\ parentEnv = FALSE
  /\ client = FALSE
  /\ io = "none"
  /\ enabled = FALSE
  /\ channel = FALSE
  /\ terminated = FALSE
  /\ running = FALSE
  /\ stack = <<>>
  /\ mode = "loop"
  /\ asyncPending = FALSE
  /\ tasks = 0
  /\ interrupts = 0
  /\ reqPc = 0
  /\ actor = "exec"
  /\ lastOp = "Agent"
  /\ ret = "none"
  /\ didBind = FALSE
  /\ waitRet = FALSE
  /\ startIoOn = "none"
  /\ attached = FALSE
  /\ bindsSinceStop = 0
  /\ okSinceStop = FALSE
  /\ bindFailed = FALSE
  /\ boundBy = "none"
  /\ deliveredSinceStop = FALSE
  /\ owed = FALSE
  /\ blocked = FALSE
  /\ calls = <<>>

\* The execution thread can start an operation at top level, or from work run
\* inside the pause loop: inside the delegate's wait or inside a drained task.
CanCall ==
  /\ fate = "running"
  /\ IF stack = <<>> THEN TRUE ELSE Top.pc \in {"waiting", "pump"}

\* A step of the execution thread other than the teardown operations: the
\* thread is not blocked in the controller, and the record of the teardown
\* calls is cleared.
ExecStep(op) ==
  /\ ~blocked
  /\ actor' = "exec"
  /\ lastOp' = op
  /\ blocked' = FALSE
  /\ calls' = <<>>

----------------------------------------------------------------------------
\* Agent::StartIoThread, line 296: the early return tests io_ only.
IoPresent_Never == FALSE

IoPresent == io # "none"

\* Agent::StartIoThread, line 305: client_.reset() on a failed bind.
ClientAfterFailedBind_Kept(c) == c

ClientAfterFailedBind(c) == FALSE

\* Agent::StartIoThread called on thread thr, with c and ch the Session
\* Client and its channel at the call, bindOk the result of InspectorIo::Start.
StartIoThread(c, ch, bindOk, thr) ==
  /\ startIoOn' = thr
  /\ IF IoPresent
     THEN /\ ret' = "true"
          /\ didBind' = FALSE
          /\ client' = c
          /\ channel' = ch
          /\ UNCHANGED <<io, enabled, fate, bindsSinceStop, okSinceStop, bindFailed,
                         boundBy>>
     ELSE IF ~c
     THEN /\ fate' = "assert"
          /\ ret' = "none"
          /\ didBind' = FALSE
          /\ client' = c
          /\ channel' = ch
          /\ UNCHANGED <<io, enabled, bindsSinceStop, okSinceStop, bindFailed,
                         boundBy>>
     ELSE /\ enabled' = TRUE
          /\ didBind' = TRUE
          /\ bindsSinceStop' = Min(bindsSinceStop + 1, MaxBinds)
          /\ boundBy' = lastOp'
          /\ fate' = fate
          /\ IF bindOk
             THEN /\ io' = "started"
                  /\ client' = c
                  /\ channel' = ch
                  /\ ret' = "true"
                  /\ okSinceStop' = TRUE
                  /\ bindFailed' = bindFailed
             ELSE /\ io' = "failed"
                  /\ client' = ClientAfterFailedBind(c)
                  /\ channel' = IF client' THEN ch ELSE FALSE
                  /\ ret' = "false"
                  /\ okSinceStop' = okSinceStop
                  /\ bindFailed' = TRUE

\* Agent::Start: runs once, at top level, on the execution thread.
Start ==
  /\ fate = "running"
  /\ ~parentEnv
  /\ stack = <<>>
  /\ ExecStep("Start")
  /\ parentEnv' = TRUE
  /\ terminated' = FALSE
  /\ running' = FALSE
  /\ asyncPending' = FALSE
  /\ \E bindOk \in BOOLEAN : StartIoThread(TRUE, FALSE, bindOk, "exec")
  /\ UNCHANGED <<stack, mode, tasks, interrupts, reqPc, waitRet, attached,
                 deliveredSinceStop, owed>>

\* A direct call of Agent::StartIoThread by the embedder.
CallStartIoThread ==
  /\ CanCall
  /\ ExecStep("StartIoThread")
  /\ \E bindOk \in BOOLEAN : StartIoThread(client, channel, bindOk, "exec")
  /\ UNCHANGED <<parentEnv, terminated, running, stack, mode, wakeVars,
                 waitRet, attached, deliveredSinceStop, owed>>

\* Agent::Stop releasing the Session Client together with the controller.
Stop_AlsoReleasesClient ==
  /\ CanCall
  /\ ExecStep("Stop")
  /\ io' = "none"
  /\ client' = FALSE
  /\ channel' = FALSE
  /\ bindsSinceStop' = 0
  /\ okSinceStop' = FALSE
  /\ deliveredSinceStop' = FALSE
  /\ UNCHANGED <<fate, parentEnv, enabled, terminated, running, stack, mode,
                 wakeVars, ret, didBind, waitRet, startIoOn, attached,
                 bindFailed, boundBy, owed>>

\* Agent::Stop.
Stop ==
  /\ CanCall
  /\ ExecStep("Stop")
  /\ io' = "none"
  /\ bindsSinceStop' = 0
  /\ okSinceStop' = FALSE
  /\ deliveredSinceStop' = FALSE
  /\ UNCHANGED <<fate, parentEnv, client, enabled, clientVars, stack, mode,
                 wakeVars, ret, didBind, waitRet, startIoOn, attached,
                 bindFailed, boundBy, owed>>

----------------------------------------------------------------------------
\* NodeInspectorClient::connectFrontend with the assertion of line 198 left
\* out: the new channel replaces the attached one.
connectFrontend_NoAssert ==
  fate' = fate /\ channel' = TRUE /\ attached' = TRUE

\* NodeInspectorClient::connectFrontend.
connectFrontend ==
  IF channel
  THEN fate' = "assert" /\ UNCHANGED <<channel, attached>>
  ELSE fate' = fate /\ channel' = TRUE /\ attached' = TRUE

\* Agent::Connect: sets enabled_, then calls through client_ unchecked.
Connect ==
  /\ CanCall
  /\ ExecStep("Connect")
  /\ enabled' = TRUE
  /\ IF client
     THEN connectFrontend
     ELSE /\ \E f \in UBOutcomes : fate' = f
          /\ UNCHANGED <<channel, attached>>
  /\ UNCHANGED <<parentEnv, client, io, terminated, running, stack, mode,
                 wakeVars, ioResult, waitRet, deliveredSinceStop, owed>>

\* NodeInspectorClient::quitMessageLoopOnPause.
quitMessageLoopOnPause == terminated' = TRUE

\* NodeInspectorClient::disconnectFrontend with channel_.reset() left out.
disconnectFrontend_KeepsChannel ==
  /\ quitMessageLoopOnPause
  /\ channel' = channel

\* NodeInspectorClient::disconnectFrontend with the call of line 204 left out.
disconnectFrontend_NoQuit ==
  /\ terminated' = terminated
  /\ channel' = FALSE

\* NodeInspectorClient::disconnectFrontend.
disconnectFrontend ==
  /\ quitMessageLoopOnPause
  /\ channel' = FALSE

\* Agent::Disconnect.
Disconnect ==
  /\ CanCall
  /\ ExecStep("Disconnect")
  /\ IF client
     THEN /\ fate' = fate
          /\ disconnectFrontend
          /\ attached' = FALSE
          /\ stack' = IF stack = <<>> THEN stack
                                      ELSE SetTop([Top EXCEPT !.disc = TRUE])
     ELSE fate' = "assert" /\ UNCHANGED <<terminated, channel, attached, stack>>
  /\ UNCHANGED <<agentVars, running, mode, wakeVars, ioResult, waitRet,
                 deliveredSinceStop, owed>>

\* Agent::Dispatch and NodeInspectorClient::dispatchMessageFromFrontend.
Dispatch ==
  /\ CanCall
  /\ ExecStep("Dispatch")
  /\ fate' = IF client /\ channel THEN fate ELSE "assert"
  /\ UNCHANGED <<agentVars, clientVars, stack, mode, wakeVars, ioResult,
                 waitRet, attached, deliveredSinceStop, owed>>

\* The inspector engine resumes execution: quitMessageLoopOnPause is called
\* on the live Session Client.
Quit ==
  /\ CanCall
  /\ client
  /\ ExecStep("Quit")
  /\ quitMessageLoopOnPause
  /\ UNCHANGED <<fate, agentVars, channel, running, stack, mode, wakeVars,
                 ioResult, waitRet, attached, deliveredSinceStop, owed>>

\* Agent::WaitForDisconnect, line 331, with the test left out.
IoToWaitOn_Always == TRUE

\* Agent::WaitForDisconnect, line 331: io_ != nullptr.
IoToWaitOn == io # "none"

\* The body of Agent::WaitForDisconnect, entered after the calls made: the
\* assertion, the context teardown, then the blocking wait on the controller.
waitForDisconnect(made) ==
  IF ~client
  THEN /\ fate' = "assert"
       /\ calls' = made
       /\ blocked' = FALSE
  ELSE /\ fate' = fate
       /\ calls' = made \o <<"contextDestroyed">> \o
                    (IF IoToWaitOn THEN <<"io.WaitForDisconnect">> ELSE <<>>)
       /\ blocked' = IoToWaitOn

\* Agent::WaitForDisconnect.
WaitForDisconnect ==
  /\ CanCall
  /\ ~blocked
  /\ actor' = "exec"
  /\ lastOp' = "WaitForDisconnect"
  /\ waitForDisconnect(<<>>)
  /\ UNCHANGED <<agentVars, clientVars, stack, mode, wakeVars, ioResult,
                 waitRet, attached, deliveredSinceStop, owed>>

\* InspectorIo::WaitForDisconnect returns: the frontend has detached.
WfdReturn ==
  /\ fate = "running"
  /\ blocked
  /\ actor' = "exec"
  /\ lastOp' = "WfdReturn"
  /\ blocked' = FALSE
  /\ calls' = <<>>
  /\ UNCHANGED <<fate, agentVars, clientVars, stack, mode, wakeVars, ioResult,
                 waitRet, attached, deliveredSinceStop, owed>>

\* Agent::IsStarted is declared in the header: the Agent counts as started
\* while it holds the Session Client that the report goes through.
IsStarted == client

\* Agent::FatalException, line 340, left out.
AfterReport_NoWait(made) ==
  /\ fate' = fate
  /\ calls' = made
  /\ blocked' = FALSE

\* Agent::FatalException, line 340: WaitForDisconnect().
AfterReport(made) == waitForDisconnect(made)

\* Agent::FatalException.
FatalException ==
  /\ CanCall
  /\ ~blocked
  /\ actor' = "exec"
  /\ lastOp' = "FatalException"
  /\ IF ~IsStarted
     THEN fate' = fate /\ calls' = <<>> /\ blocked' = FALSE
     ELSE IF ~client
     THEN (\E f \in UBOutcomes : fate' = f) /\ calls' = <<>> /\ blocked' = FALSE
     ELSE AfterReport(<<"exceptionThrown">>)
  /\ UNCHANGED <<agentVars, clientVars, stack, mode, wakeVars, ioResult,
                 waitRet, attached, deliveredSinceStop, owed>>

----------------------------------------------------------------------------
\* runMessageLoopOnPause, lines 166-167, with the guard left out.
AlreadyLooping_Ignored == FALSE

\* runMessageLoopOnPause, lines 166-167: the non-reentrancy guard.
AlreadyLooping == running

\* pc is the activation's position; the other fields are history: a wait
\* has been called, the queue was drained since the last wait returned,
\* terminated_ was still set when the activation began (kept until its first
\* loop check), disconnect() ran inside the activation.
NewActivation ==
  [pc |-> "check", waited |-> FALSE, drained |-> FALSE, stale |-> terminated,
   disc |-> FALSE]

\* runMessageLoopOnPause, line 168, with the reset of terminated_ left out.
TerminatedAtLoopStart_Kept == terminated

\* runMessageLoopOnPause, line 168: terminated_ = false.
TerminatedAtLoopStart == FALSE

\* Agent::RunMessageLoop and the entry of runMessageLoopOnPause (lines
\* 165-169): both assertions, the guard, then the two flags are set and the
\* activation is about to evaluate the loop condition.
RunMessageLoop ==
  /\ CanCall
  /\ Len(stack) < MaxDepth
  /\ ExecStep("RunMessageLoop")
  /\ IF ~client \/ ~channel
     THEN fate' = "assert" /\ UNCHANGED <<terminated, running, stack>>
     ELSE IF AlreadyLooping
     THEN UNCHANGED <<fate, terminated, running, stack>>
     ELSE /\ fate' = fate
          /\ terminated' = TerminatedAtLoopStart
          /\ running' = TRUE
          /\ stack' = Append(stack, NewActivation)
  /\ UNCHANGED <<agentVars, channel, mode, wakeVars, ioResult, waitRet,
                 attached, deliveredSinceStop, owed>>

\* runMessageLoopOnPause, lines 174-176: leaving the loop.
ExitLoop ==
  /\ terminated' = FALSE
  /\ running' = FALSE
  /\ stack' = Pop

\* Line 170, first operand, with the terminated_ test left out.
TerminatedAtCheck_Ignored == FALSE

\* Line 170, first operand of the loop condition.
TerminatedAtCheck == terminated

\* Line 170: the loop condition is evaluated; when terminated_ is false the
\* activation calls channel_->waitForFrontendMessage() and blocks in it.
LoopCheck ==
  /\ fate = "running"
  /\ stack # <<>>
  /\ Top.pc = "check"
  /\ client
  /\ ExecStep("LoopCheck")
  /\ IF TerminatedAtCheck
     THEN fate' = fate /\ ExitLoop
     ELSE IF ~channel
     THEN (\E f \in UBOutcomes : fate' = f) /\ UNCHANGED <<terminated, running, stack>>
     ELSE /\ fate' = fate
          /\ stack' = SetTop([Top EXCEPT !.pc = "waiting", !.waited = TRUE,
                                          !.stale = FALSE])
          /\ UNCHANGED <<terminated, running>>
  /\ UNCHANGED <<agentVars, channel, mode, wakeVars, ioResult, waitRet,
                 attached, deliveredSinceStop, owed>>

\* Line 170, second operand: waitForFrontendMessage() returns b.
WaitReturn ==
  /\ fate = "running"
  /\ stack # <<>>
  /\ Top.pc = "waiting"
  /\ client
  /\ ExecStep("WaitReturn")
  /\ \E b \in BOOLEAN :
       /\ waitRet' = b
       /\ IF b
          THEN /\ stack' = SetTop([Top EXCEPT !.pc = "pump", !.drained = FALSE])
               /\ UNCHANGED <<terminated, running>>
          ELSE ExitLoop
  /\ UNCHANGED <<fate, agentVars, channel, mode, wakeVars, ioResult, attached,
                 deliveredSinceStop, owed>>

\* Lines 171-172 with the inner while replaced by a single call.
AfterTask_Once == "check"

\* Lines 171-172: after a task ran, PumpMessageLoop is called again.
AfterTask == "pump"

\* A wake delivery: StartIoThread(false) on the execution thread.
Deliver ==
  /\ \E bindOk \in BOOLEAN : StartIoThread(client, channel, bindOk, "exec")
  /\ deliveredSinceStop' = TRUE
  /\ owed' = FALSE

\* Lines 171-172 and StartIoTask::Run: PumpMessageLoop runs one queued task.
PumpTask ==
  /\ fate = "running"
  /\ stack # <<>>
  /\ Top.pc = "pump"
  /\ client
  /\ tasks > 0
  /\ ExecStep("PumpTask")
  /\ tasks' = tasks - 1
  /\ Deliver
  /\ stack' = SetTop([Top EXCEPT !.pc = AfterTask])
  /\ UNCHANGED <<parentEnv, terminated, running, mode, asyncPending,
                 interrupts, reqPc, waitRet, attached>>

\* Lines 171-172: PumpMessageLoop finds the queue empty and returns false.
PumpDone ==
  /\ fate = "running"
  /\ stack # <<>>
  /\ Top.pc = "pump"
  /\ client
  /\ tasks = 0
  /\ ExecStep("PumpDone")
  /\ stack' = SetTop([Top EXCEPT !.pc = "check", !.drained = TRUE])
  /\ UNCHANGED <<fate, agentVars, clientVars, mode, wakeVars, ioResult,
                 waitRet, attached, deliveredSinceStop, owed>>

\* Lines 170-175 executed by an activation whose Session Client was destroyed
\* by client_.reset() (line 305): every member access is a use after free.
LoopUseAfterFree ==
  /\ fate = "running"
  /\ stack # <<>>
  /\ ~client
  /\ ExecStep("LoopUseAfterFree")
  /\ \E f \in UBOutcomes : fate' = f
  /\ UNCHANGED <<agentVars, clientVars, stack, mode, wakeVars, ioResult,
                 waitRet, attached, deliveredSinceStop, owed>>

----------------------------------------------------------------------------
\* The execution thread leaves its event source to run script, and returns
\* to it (the two situations named at lines 373-375).
ScriptStart ==
  /\ fate = "running"
  /\ stack = <<>>
  /\ mode = "loop"
  /\ ExecStep("ScriptStart")
  /\ mode' = "script"
  /\ UNCHANGED <<fate, agentVars, clientVars, stack, wakeVars, ioResult,
                 waitRet, attached, deliveredSinceStop, owed>>

ScriptEnd ==
  /\ fate = "running"
  /\ stack = <<>>
  /\ mode = "script"
  /\ ExecStep("ScriptEnd")
  /\ mode' = "loop"
  /\ UNCHANGED <<fate, agentVars, clientVars, stack, wakeVars, ioResult,
                 waitRet, attached, deliveredSinceStop, owed>>

\* StartIoThreadAsyncCallback: the event source delivers the signalled async
\* handle while the execution thread is blocked on it.
AsyncDeliver ==
  /\ fate = "running"
  /\ stack = <<>>
  /\ mode = "loop"
  /\ asyncPending
  /\ ExecStep("AsyncDeliver")
  /\ asyncPending' = FALSE
  /\ Deliver
  /\ UNCHANGED <<parentEnv, terminated, running, stack, mode, tasks,
                 interrupts, reqPc, waitRet, attached>>

\* StartIoInterrupt: running script reaches an interrupt checkpoint.
InterruptDeliver ==
  /\ fate = "running"
  /\ stack = <<>>
  /\ mode = "script"
  /\ interrupts > 0
  /\ ExecStep("InterruptDeliver")
  /\ interrupts' = interrupts - 1
  /\ Deliver
  /\ UNCHANGED <<parentEnv, terminated, running, stack, mode, asyncPending,
                 tasks, reqPc, waitRet, attached>>

IoStep(op) ==
  /\ fate = "running"
  /\ actor' = "io"
  /\ lastOp' = op
  /\ blocked' = blocked
  /\ calls' = <<>>

\* RequestIoThreadStart, line 376: the first uv_async_send.  The call is made
\* on a started Agent, one call at a time, with room left in the queues.
ReqSignal ==
  /\ reqPc = 0
  /\ parentEnv
  /\ tasks < MaxPending
  /\ interrupts < MaxPending
  /\ IoStep("ReqSignal")
  /\ asyncPending' = TRUE
  /\ reqPc' = 1
  /\ owed' = TRUE
  /\ UNCHANGED <<fate, agentVars, clientVars, stack, mode, tasks, interrupts,
                 ioResult, waitRet, attached, deliveredSinceStop>>

\* RequestIoThreadStart, lines 377-378: CallOnForegroundThread(new StartIoTask).
ReqPostTask ==
  /\ reqPc = 1
  /\ IoStep("ReqPostTask")
  /\ tasks' = tasks + 1
  /\ reqPc' = 2
  /\ UNCHANGED <<fate, agentVars, clientVars, stack, mode, asyncPending,
                 interrupts, ioResult, waitRet, attached, deliveredSinceStop,
                 owed>>

\* Line 379 replaced by a direct call of StartIoThread on the calling thread.
RequestInterrupt_Direct ==
  /\ interrupts' = interrupts
  /\ \E bindOk \in BOOLEAN : StartIoThread(client, channel, bindOk, "io")

\* Line 379 left out.
RequestInterrupt_Omitted ==
  /\ interrupts' = interrupts
  /\ UNCHANGED <<fate, client, io, enabled, channel, ioResult>>

\* RequestIoThreadStart, line 379: isolate->RequestInterrupt(StartIoInterrupt).
RequestInterrupt ==
  /\ interrupts' = interrupts + 1
  /\ UNCHANGED <<fate, client, io, enabled, channel, ioResult>>

ReqInterrupt ==
  /\ reqPc = 2
  /\ IoStep("ReqInterrupt")
  /\ RequestInterrupt
  /\ reqPc' = 3
  /\ UNCHANGED <<parentEnv, terminated, running, stack, mode, asyncPending,
                 tasks, waitRet, attached, deliveredSinceStop, owed>>

\* RequestIoThreadStart, line 380: the second uv_async_send.
ReqResignal ==
  /\ reqPc = 3
  /\ IoStep("ReqResignal")
  /\ asyncPending' = TRUE
  /\ reqPc' = 0
  /\ UNCHANGED <<fate, agentVars, clientVars, stack, mode, tasks, interrupts,
                 ioResult, waitRet, attached, deliveredSinceStop, owed>>

----------------------------------------------------------------------------
Next ==
  \/ Start
  \/ CallStartIoThread
  \/ Stop
  \/ Connect
  \/ Disconnect
  \/ Dispatch
  \/ Quit
  \/ WaitForDisconnect
  \/ WfdReturn
  \/ FatalException
  \/ RunMessageLoop
  \/ LoopCheck
  \/ WaitReturn
  \/ PumpTask
  \/ PumpDone
  \/ LoopUseAfterFree
  \/ ScriptStart
  \/ ScriptEnd
  \/ AsyncDeliver
  \/ InterruptDeliver
  \/ ReqSignal
  \/ ReqPostTask
  \/ ReqInterrupt
  \/ ReqResignal

Spec == Init /\ [][Next]_vars

\* The scheduling the wake paths rely on: the event source delivers a
\* signalled async handle whenever the execution thread blocks on it, running
\* script reaches an interrupt checkpoint, and the requesting thread runs on.
LiveSpec ==
  /\ Spec
  /\ SF_vars(AsyncDeliver)
  /\ SF_vars(InterruptDeliver)
  /\ WF_vars(ReqPostTask)
  /\ WF_vars(ReqInterrupt)
  /\ WF_vars(ReqResignal)

TypeOK ==
  /\ fate \in {"running", "assert", "segv", "ub"}
  /\ io \in {"none", "started", "failed"}
  /\ mode \in {"loop", "script"}
  /\ tasks \in 0..MaxPending
  /\ interrupts \in 0..MaxPending
  /\ reqPc \in 0..3
  /\ Len(stack) <= MaxDepth
  /\ bindsSinceStop \in 0..MaxBinds
  /\ blocked \in BOOLEAN
  /\ Len(calls) <= 3

----------------------------------------------------------------------------
\* Steps in which Agent::StartIoThread is invoked after Agent::Start.
StartIoThreadStep ==
  CallStartIoThread \/ AsyncDeliver \/ InterruptDeliver \/ PumpTask

\* Steps in which a wake path armed by RequestIoThreadStart delivers.
DeliveryStep == AsyncDeliver \/ InterruptDeliver \/ PumpTask

agentState == <<parentEnv, client, io, enabled, channel, terminated, running>>

\* C1: while the Agent holds its Session Client, the channel reference is
\* non-null exactly when a connect() has returned and no disconnect() has
\* returned since; no other operation attaches or releases it.
C1_ChannelBetweenConnectAndDisconnect ==
  client => (channel <=> attached)

\* A connect() that follows an earlier disconnect() or quit has attached.
C1_Witness ==
  /\ fate = "running"
  /\ lastOp = "Connect"
  /\ client /\ channel /\ attached
  /\ terminated

\* C2: a StartIoThread issued after a bind succeeded, with no Stop() since,
\* returns true, binds nothing and changes no Agent state; between two
\* Stop() calls the transport bind is performed once.
C2_SecondStartIsIdempotent ==
  [][ /\ (StartIoThreadStep /\ okSinceStop) =>
           /\ ret' = "true"
           /\ ~didBind'
           /\ UNCHANGED <<fate, agentState>>
      /\ okSinceStop' => bindsSinceStop' = 1 ]_vars

C2_Witness ==
  /\ fate = "running"
  /\ lastOp = "StartIoThread"
  /\ okSinceStop /\ bindsSinceStop = 1
  /\ ret = "true" /\ ~didBind
  /\ io = "started"

\* C3: the StartIoThread whose bind fails returns false and releases the
\* Session Client, and every dispatch() after that ends in the assertion.
C3_BindFailureTearsDownClient ==
  [][ /\ (~bindFailed /\ bindFailed') => (ret' = "false" /\ ~client')
      /\ bindFailed' => ~client'
      /\ (Dispatch /\ bindFailed) => fate' = "assert" ]_vars

C3_Witness ==
  /\ bindFailed
  /\ ~client
  /\ lastOp = "Dispatch"
  /\ fate = "assert"

\* C4: StartIoThread returns true without attempting a bind only when a
\* previous bind succeeded and no Stop() happened since.
C4_TrueWithoutBindOnlyWhenStarted ==
  [][ (StartIoThreadStep /\ ret' = "true" /\ ~didBind') => okSinceStop ]_vars

\* A call of runMessageLoopOnPause on the live Session Client while an
\* activation is inside the loop.
ReentrantCall == RunMessageLoop /\ client /\ stack # <<>>

\* C5 as stated: every re-entrant pause request returns at once, without
\* waiting, draining or touching the flags, and at most one activation loops.
C5_ReentrantPauseAlwaysReturns ==
  [][ /\ ReentrantCall =>
           /\ fate' = "running"
           /\ UNCHANGED <<terminated, running, stack, tasks>>
      /\ Len(stack') <= 1 ]_vars

\* C5 amended: a re-entrant pause request never waits, drains or touches the
\* flags, and at most one activation loops; it returns when a channel is
\* attached and ends in the channel assertion of line 165 when disconnect()
\* has released the channel inside the loop.
C5_ReentrantPauseIsNoOp ==
  [][ /\ ReentrantCall =>
           /\ UNCHANGED <<terminated, running, stack, tasks>>
           /\ (fate' = "running") <=> channel
      /\ Len(stack') <= 1 ]_vars

C5_Witness ==
  /\ fate = "running"
  /\ lastOp = "RunMessageLoop"
  /\ Len(stack) = 1
  /\ Top.pc \in {"waiting", "pump"}
  /\ running /\ channel

LoopLeft == Len(stack') < Len(stack)

\* C6: an activation leaves the loop exactly at a loop check that finds
\* terminated_ true or at a waitForFrontendMessage() that returned false; it
\* then clears the running flag and starts no further wait.
C6_LoopExitCondition ==
  [][ /\ LoopLeft =>
           /\ ~running'
           /\ \/ Top.pc = "check" /\ terminated
              \/ Top.pc = "waiting" /\ ~waitRet'
      /\ (LoopCheck /\ terminated) => (LoopLeft /\ ~running')
      /\ (WaitReturn /\ ~waitRet') => (LoopLeft /\ ~running')
      /\ (WaitReturn /\ waitRet') => ~LoopLeft ]_vars

\* The loop was left at a check although the last wait had returned true.
C6_Witness ==
  /\ fate = "running"
  /\ lastOp = "LoopCheck"
  /\ stack = <<>>
  /\ waitRet
  /\ ~running /\ ~terminated

\* C7: once RequestIoThreadStart has begun, a delivery invokes
\* StartIoThread(false) on the execution thread, whether the thread is
\* blocked on its event source or running script, unless the process has
\* aborted or the thread stays parked for ever in the nested pause loop or
\* in the controller's wait for the frontend to detach.
C7_RequestLeadsToStartIoThread ==
  ([]<>(stack = <<>> /\ ~blocked)) => (owed ~> (~owed \/ fate # "running"))

\* The interrupt delivered the start while the thread was running script.
C7_Witness ==
  /\ fate = "running"
  /\ lastOp = "InterruptDeliver"
  /\ mode = "script"
  /\ ~owed
  /\ startIoOn = "exec"

\* C8: a step of the requesting thread changes nothing but the async signal,
\* the foreground queue and the interrupt requests, and StartIoThread is
\* never invoked on it.
C8_ExecStateTouchedOnExecThreadOnly ==
  [][ /\ actor' = "io" =>
           UNCHANGED <<fate, agentState, stack, mode, ioResult, waitRet,
                       attached, deliveredSinceStop>>
      /\ startIoOn' # "io" ]_vars

\* A queued start task ran on the execution thread, inside the pause loop,
\* while the requesting thread was still inside RequestIoThreadStart.
C8_Witness ==
  /\ fate = "running"
  /\ reqPc = 3
  /\ stack # <<>>
  /\ lastOp = "PumpTask"
  /\ startIoOn = "exec"

\* C9: a delivery that follows another delivery with no Stop() in between
\* returns true without binding, without changing Agent state and without
\* an assertion; between two Stop() calls at most one bind is performed.
C9_DuplicateDeliveryIsSafe ==
  [][ /\ (DeliveryStep /\ deliveredSinceStop) =>
           /\ ret' = "true"
           /\ ~didBind'
           /\ UNCHANGED <<fate, agentState>>
      /\ bindsSinceStop' <= 1 ]_vars

\* One delivery bound the controller, a later one found it present.
C9_Witness ==
  /\ fate = "running"
  /\ lastOp = "InterruptDeliver"
  /\ boundBy \in {"AsyncDeliver", "PumpTask"}
  /\ bindsSinceStop = 1
  /\ ret = "true" /\ ~didBind

\* The activation calls waitForFrontendMessage().
EntersWait ==
  /\ LoopCheck
  /\ Len(stack') = Len(stack)
  /\ stack'[Len(stack')].pc = "waiting"

\* C10 as stated: before every wait, the first included, the queue has been
\* drained to exhaustion (or holds nothing to drain).
C10_DrainBeforeEveryWait ==
  [][ EntersWait => (Top.drained \/ tasks = 0) ]_vars

\* C10 amended: before every wait but the first of an activation, the queue
\* has been drained to exhaustion since the previous wait returned.
C10_DrainBeforeEveryLaterWait ==
  [][ (EntersWait /\ Top.waited) => Top.drained ]_vars

C10_Witness ==
  /\ fate = "running"
  /\ stack # <<>>
  /\ lastOp = "LoopCheck"
  /\ Top.pc = "waiting"
  /\ Top.waited /\ Top.drained
  /\ boundBy = "PumpTask"

\* disconnect() runs on the live Session Client inside an activation.
InLoopDisconnect == Disconnect /\ client /\ stack # <<>>

LoopStarted == RunMessageLoop /\ Len(stack') > Len(stack)

\* C17: the start of an activation clears terminated_, so the first loop
\* check of every activation calls waitForFrontendMessage(), also when a
\* terminate request was pending at the start; an activation that leaves
\* the loop leaves both flags false.
C17_TerminatedResetAtLoopStart ==
  [][ /\ LoopStarted => (~terminated' /\ running')
      /\ (LoopCheck /\ ~Top.waited) => EntersWait
      /\ LoopLeft => (~terminated' /\ ~running') ]_vars

\* An activation began while a terminate request from an earlier
\* disconnect() or quit was still set, and the start cleared it.
C17_Witness ==
  /\ fate = "running"
  /\ lastOp = "RunMessageLoop"
  /\ stack # <<>>
  /\ Top.stale
  /\ Top.pc = "check"
  /\ ~terminated /\ running

\* C12: Stop() leaves the Agent without IO controller, whether or not it had
\* one, and changes nothing else; connect(), dispatch() and disconnect()
\* issued right after it behave as on any Agent holding its Session Client.
C12_StopLeavesSessionClient ==
  [][ /\ Stop =>
           /\ io' = "none"
           /\ UNCHANGED <<fate, parentEnv, client, enabled, channel,
                          terminated, running, stack, attached>>
      /\ (Dispatch /\ lastOp = "Stop" /\ client /\ channel) => fate' = "running"
      /\ (Connect /\ lastOp = "Stop" /\ client /\ ~channel) =>
           (fate' = "running" /\ channel')
      /\ (Disconnect /\ lastOp = "Stop" /\ client) =>
           (fate' = "running" /\ ~channel') ]_vars

\* A dispatch() went through on an Agent whose controller was stopped.
C12_Witness ==
  /\ fate = "running"
  /\ lastOp = "Dispatch"
  /\ parentEnv
  /\ io = "none" /\ bindsSinceStop = 0
  /\ client /\ channel

\* C15: connect(), disconnect() and dispatch() called on an Agent without
\* Session Client each end in the Session Client assertion.
C15_EachAssertsSessionClient ==
  [][ ((Connect \/ Disconnect \/ Dispatch) /\ ~client) => fate' = "assert" ]_vars

\* C16: connect() on a Session Client whose channel is attached ends in the
\* assertion of line 198; the attached channel is neither replaced nor joined
\* by a second one.
C16_ConnectWhileAttachedAsserts ==
  [][ (Connect /\ client /\ channel) =>
        (fate' = "assert" /\ UNCHANGED <<channel, attached, client>>) ]_vars

C16_Witness ==
  /\ lastOp = "Connect"
  /\ fate = "assert"
  /\ client /\ channel /\ attached

\* C18: the Session Client exists whenever an activation of the pause loop is
\* running.
C18_ClientOutlivesLoop ==
  (running /\ stack # <<>>) => client

\* C19: on a live Session Client, running without terminated implies an
\* attached channel, and no evaluation of the loop condition goes through a
\* null channel.
C19_LiveLoopHasChannel ==
  [][ /\ (client' /\ running' /\ ~terminated') => channel'
      /\ LoopCheck => fate' = "running" ]_vars

\* A pause request issued from a drained task found the loop live.
C19_Witness ==
  /\ fate = "running"
  /\ lastOp = "RunMessageLoop"
  /\ Len(stack) = 1
  /\ Top.pc = "pump"
  /\ client /\ running /\ ~terminated /\ channel

\* C20: a wake delivery that runs right after Stop(), hence one armed by a
\* request made before that Stop(), leaves the IO controller absent and ends
\* in no assertion.
C20_StaleDeliveryDoesNotRebind ==
  [][ (DeliveryStep /\ lastOp = "Stop") =>
        (io' = "none" /\ ~didBind' /\ fate' = fate) ]_vars

\* The calls WaitForDisconnect makes on an Agent that holds its Session
\* Client: the context teardown, then the blocking wait when a controller
\* exists.
TeardownCalls ==
  <<"contextDestroyed">> \o
    (IF io # "none" THEN <<"io.WaitForDisconnect">> ELSE <<>>)

\* C13 as stated: every WaitForDisconnect() tears down the context first, then
\* blocks on the IO controller exactly when one exists.
C13_AlwaysTearsDownFirst ==
  [][ WaitForDisconnect =>
        /\ calls' = TeardownCalls
        /\ blocked' <=> (io # "none") ]_vars

\* C13 amended: on an Agent holding its Session Client, WaitForDisconnect()
\* tears down the context first, then blocks on the IO controller exactly
\* when one exists, and changes no Agent state; on an Agent without Session
\* Client it ends in the assertion of line 329 before any teardown or wait.
C13_TeardownThenBlockIffController ==
  [][ WaitForDisconnect =>
        IF client
        THEN /\ calls' = TeardownCalls
             /\ blocked' <=> (io # "none")
             /\ UNCHANGED <<fate, agentState, stack>>
        ELSE /\ fate' = "assert"
             /\ calls' = <<>>
             /\ ~blocked' ]_vars

\* With the controller stopped the call returned right after the teardown.
C13_Witness ==
  /\ fate = "running"
  /\ lastOp = "WaitForDisconnect"
  /\ parentEnv /\ client
  /\ io = "none"
  /\ calls = <<"contextDestroyed">>
  /\ ~blocked

====
